---- MODULE Spec2Model ----
(***************************************************************************)
(* Binary search tree of src/js/BinarySearchTree.js, with the Node of      *)
(* src/js/Node.js and the Stack / Queue scratch containers.                *)
(*                                                                         *)
(* Node objects live in a heap: a function from object identities         *)
(* (positive integers) to records; `new Node(v)` takes the smallest        *)
(* identity not in use.  An object no reference leads to any more is       *)
(* dropped from the heap when a call returns.  The reference null is 0.    *)
(* Identities carry no meaning beyond equality, so every call starts from  *)
(* the heap renumbered in pre-order (root 1): preHeap / preRoot hold that   *)
(* renumbered heap, and heap / root the outcome of the call on it.         *)
(* `held` is a Node reference the caller kept from find(); the object it    *)
(* leads to stays in the heap after a remove or rebalance detached it.     *)
(***************************************************************************)
EXTENDS Integers, Sequences, FiniteSets, TLC

\* ---- bounds -------------------------------------------------------------
\* values are drawn from 1..MaxVal
MaxVal == 5

Values == 1..MaxVal

VARIABLES
  heap,      \* [identity -> [value, left, right]]: the Node objects in use
  root,      \* tree.root
  op,        \* the last call made on the tree
  arg,       \* its value argument (0 when it takes none)
  threw,     \* whether it raised an Error
  ret,       \* the node it returned (NULL when it returns nothing); callers drop it
  values,    \* the array the call handed to #buildTree (constructor, rebalance)
  visited,   \* nodes handed to the traversal callback, in call order
  preHeap,   \* heap before the last call
  preRoot,   \* tree.root before the last call
  held       \* the node the caller kept from its last find() (NULL when none)

vars == <<heap, root, op, arg, threw, ret, values, visited, preHeap, preRoot, held>>

\* ---- Node.js ------------------------------------------------------------
NULL == 0

Node(value) == [value |-> value, left |-> NULL, right |-> NULL]

\* the identity `new` gives the next object
NewId(h) ==
  CHOOSE i \in 1..(Cardinality(DOMAIN h) + 1) :
    /\ i \notin DOMAIN h
    /\ \A j \in 1..(i - 1) : j \in DOMAIN h

\* new Node(value): the heap with the new object, and the reference to it
newNode(h, value) == [h |-> h @@ (NewId(h) :> Node(value)), ret |-> NewId(h)]

\* the nodes reachable from r by left / right links
RECURSIVE Reachable(_, _)
Reachable(h, r) ==
  IF r = NULL THEN {}
  ELSE {r} \cup Reachable(h, h[r].left) \cup Reachable(h, h[r].right)

\* the heap once the objects that neither tree.root nor the caller's reference
\* leads to any more are dropped
Collect(h, r, kept) == [n \in Reachable(h, r) \cup Reachable(h, kept) |-> h[n]]

\* the nodes under r listed node, left subtree, right subtree
RECURSIVE PreOrderList(_, _)
PreOrderList(h, r) ==
  IF r = NULL THEN <<>>
  ELSE <<r>> \o PreOrderList(h, h[r].left) \o PreOrderList(h, h[r].right)

\* seq without the elements of S and without repetitions
RECURSIVE Without(_, _)
Without(seq, S) ==
  IF seq = <<>> THEN <<>>
  ELSE IF Head(seq) \in S THEN Without(Tail(seq), S)
  ELSE <<Head(seq)>> \o Without(Tail(seq), S \cup {Head(seq)})

\* the objects in use: the tree's in pre-order from r, then what only the
\* caller's reference leads to
ObjectOrder(h, r, kept) ==
  PreOrderList(h, r) \o Without(PreOrderList(h, kept), Reachable(h, r))

\* the identity an object gets in the renumbered heap
RenumberedRef(h, r, kept, n) ==
  LET order == ObjectOrder(h, r, kept)
  IN IF n = NULL THEN NULL
     ELSE CHOOSE i \in 1..Len(order) : order[i] = n

\* the same objects and links under the identities 1..n, in pre-order from r
Renumber(h, r, kept) ==
  LET order == ObjectOrder(h, r, kept)
      id(n) == IF n = NULL THEN NULL ELSE CHOOSE i \in 1..Len(order) : order[i] = n
  IN [i \in 1..Len(order) |->
        [value |-> h[order[i]].value,
         left  |-> id(h[order[i]].left),
         right |-> id(h[order[i]].right)]]

RenumberedRoot(r) == IF r = NULL THEN NULL ELSE 1

\* ---- Stack.js / Queue ---------------------------------------------------
isEmpty(array) == Len(array) = 0

push(array, value) == Append(array, value)

\* the value pop() returns, and the array it leaves
peek(array) == IF isEmpty(array) THEN NULL ELSE array[Len(array)]

pop(array) == SubSeq(array, 1, Len(array) - 1)

enqueue(array, value) == Append(array, value)

\* the value dequeue() returns (array[0]), and the array shift() leaves
queuePeek(array) == IF isEmpty(array) THEN NULL ELSE array[1]

dequeue(array) == Tail(array)

\* ---- BinarySearchTree: #buildTree ----------------------------------------
\* #buildTree whose left slice stops one short of the pivot's neighbour
RECURSIVE buildTreeShortLeftSlice(_, _)
buildTreeShortLeftSlice(h, vals) ==
  IF Len(vals) = 0 THEN [h |-> h, ret |-> NULL]
  ELSE LET midIndex == Len(vals) \div 2
           n == newNode(h, vals[midIndex + 1])
           node == n.ret
           l == buildTreeShortLeftSlice(n.h, SubSeq(vals, 1, midIndex - 1))
           h2 == [l.h EXCEPT ![node].left = l.ret]
           r == buildTreeShortLeftSlice(h2, SubSeq(vals, midIndex + 2, Len(vals)))
       IN [h |-> [r.h EXCEPT ![node].right = r.ret], ret |-> node]

\* #buildTree that takes the first element as the pivot instead of the middle one
RECURSIVE buildTreeFirstPivot(_, _)
buildTreeFirstPivot(h, vals) ==
  IF Len(vals) = 0 THEN [h |-> h, ret |-> NULL]
  ELSE LET midIndex == 0
           n == newNode(h, vals[midIndex + 1])
           node == n.ret
           l == buildTreeFirstPivot(n.h, SubSeq(vals, 1, midIndex))
           h2 == [l.h EXCEPT ![node].left = l.ret]
           r == buildTreeFirstPivot(h2, SubSeq(vals, midIndex + 2, Len(vals)))
       IN [h |-> [r.h EXCEPT ![node].right = r.ret], ret |-> node]

RECURSIVE buildTree(_, _)
buildTree(h, vals) ==
  IF Len(vals) = 0 THEN [h |-> h, ret |-> NULL]
  ELSE LET midIndex == Len(vals) \div 2
           n == newNode(h, vals[midIndex + 1])
           node == n.ret
           l == buildTree(n.h, SubSeq(vals, 1, midIndex))
           h2 == [l.h EXCEPT ![node].left = l.ret]
           r == buildTree(h2, SubSeq(vals, midIndex + 2, Len(vals)))
       IN [h |-> [r.h EXCEPT ![node].right = r.ret], ret |-> node]

\* ---- insert ---------------------------------------------------------------
\* insert with the two comparisons exchanged: smaller values go right
RECURSIVE insertWrongSide(_, _, _)
insertWrongSide(h, value, r) ==
  IF r = NULL THEN [h |-> newNode(h, value).h, ret |-> newNode(h, value).ret, threw |-> FALSE]
  ELSE IF value = h[r].value THEN [h |-> h, ret |-> NULL, threw |-> TRUE]
  ELSE IF value > h[r].value
    THEN LET s == insertWrongSide(h, value, h[r].left)
         IN IF s.threw THEN s
            ELSE [h |-> [s.h EXCEPT ![r].left = s.ret], ret |-> r, threw |-> FALSE]
    ELSE LET s == insertWrongSide(h, value, h[r].right)
         IN IF s.threw THEN s
            ELSE [h |-> [s.h EXCEPT ![r].right = s.ret], ret |-> r, threw |-> FALSE]

\* insert without the equality test: an equal value goes right (>=)
RECURSIVE insertNoDuplicateTest(_, _, _)
insertNoDuplicateTest(h, value, r) ==
  IF r = NULL THEN [h |-> newNode(h, value).h, ret |-> newNode(h, value).ret, threw |-> FALSE]
  ELSE IF value < h[r].value
    THEN LET s == insertNoDuplicateTest(h, value, h[r].left)
         IN [h |-> [s.h EXCEPT ![r].left = s.ret], ret |-> r, threw |-> FALSE]
    ELSE LET s == insertNoDuplicateTest(h, value, h[r].right)
         IN [h |-> [s.h EXCEPT ![r].right = s.ret], ret |-> r, threw |-> FALSE]

RECURSIVE insert(_, _, _)
insert(h, value, r) ==
  IF r = NULL THEN [h |-> newNode(h, value).h, ret |-> newNode(h, value).ret, threw |-> FALSE]
  ELSE IF value = h[r].value THEN [h |-> h, ret |-> NULL, threw |-> TRUE]
  ELSE IF value < h[r].value
    THEN LET s == insert(h, value, h[r].left)
         IN IF s.threw THEN s
            ELSE [h |-> [s.h EXCEPT ![r].left = s.ret], ret |-> r, threw |-> FALSE]
    ELSE LET s == insert(h, value, h[r].right)
         IN IF s.threw THEN s
            ELSE [h |-> [s.h EXCEPT ![r].right = s.ret], ret |-> r, threw |-> FALSE]

\* ---- getSmallestNode ------------------------------------------------------
\* getSmallestNode without the loop: the subtree's root is taken as its smallest node
getSmallestNodeNoDescent(h, r) == r

RECURSIVE getSmallestNode(_, _)
getSmallestNode(h, r) ==
  IF h[r].left # NULL THEN getSmallestNode(h, h[r].left) ELSE r

\* ---- remove ---------------------------------------------------------------
\* remove without the final `return root`: a call that descends returns nothing
RECURSIVE removeNoFinalReturn(_, _, _)
removeNoFinalReturn(h, value, r) ==
  IF r = NULL THEN [h |-> h, ret |-> NULL]
  ELSE IF value < h[r].value
    THEN LET s == removeNoFinalReturn(h, value, h[r].left)
         IN [h |-> [s.h EXCEPT ![r].left = s.ret], ret |-> NULL]
  ELSE IF value > h[r].value
    THEN LET s == removeNoFinalReturn(h, value, h[r].right)
         IN [h |-> [s.h EXCEPT ![r].right = s.ret], ret |-> NULL]
  ELSE IF h[r].left = NULL THEN [h |-> h, ret |-> h[r].right]
  ELSE IF h[r].right = NULL THEN [h |-> h, ret |-> h[r].left]
  ELSE LET successor == getSmallestNode(h, h[r].right)
           h1 == [h EXCEPT ![r].value = h[successor].value]
           s == removeNoFinalReturn(h1, h1[successor].value, h1[r].right)
       IN [h |-> [s.h EXCEPT ![r].right = s.ret], ret |-> NULL]

RECURSIVE remove(_, _, _)
remove(h, value, r) ==
  IF r = NULL THEN [h |-> h, ret |-> NULL]
  ELSE IF value < h[r].value
    THEN LET s == remove(h, value, h[r].left)
         IN [h |-> [s.h EXCEPT ![r].left = s.ret], ret |-> r]
  ELSE IF value > h[r].value
    THEN LET s == remove(h, value, h[r].right)
         IN [h |-> [s.h EXCEPT ![r].right = s.ret], ret |-> r]
  ELSE IF h[r].left = NULL THEN [h |-> h, ret |-> h[r].right]
  ELSE IF h[r].right = NULL THEN [h |-> h, ret |-> h[r].left]
  ELSE LET successor == getSmallestNode(h, h[r].right)
           h1 == [h EXCEPT ![r].value = h[successor].value]
           s == remove(h1, h1[successor].value, h1[r].right)
       IN [h |-> [s.h EXCEPT ![r].right = s.ret], ret |-> r]

\* ---- find -----------------------------------------------------------------
RECURSIVE find(_, _, _)
find(h, value, r) ==
  IF r = NULL THEN NULL
  ELSE IF value = h[r].value THEN r
  ELSE IF value < h[r].value THEN find(h, value, h[r].left)
  ELSE find(h, value, h[r].right)

\* ---- depth -----------------------------------------------------------------
\* the loop of depth with `currentNode !== node` read as a comparison of values
RECURSIVE depthLoopComparesValues(_, _, _, _)
depthLoopComparesValues(h, currentNode, node, depth) ==
  IF currentNode = NULL THEN [ret |-> NULL, threw |-> TRUE]
  ELSE IF h[currentNode].value = h[node].value THEN [ret |-> depth, threw |-> FALSE]
  ELSE IF h[node].value < h[currentNode].value
    THEN depthLoopComparesValues(h, h[currentNode].left, node, depth + 1)
    ELSE depthLoopComparesValues(h, h[currentNode].right, node, depth + 1)

\* while (currentNode !== node): reading currentNode.value of null is a TypeError
RECURSIVE depthLoop(_, _, _, _)
depthLoop(h, currentNode, node, depth) ==
  IF currentNode = node THEN [ret |-> depth, threw |-> FALSE]
  ELSE IF currentNode = NULL THEN [ret |-> NULL, threw |-> TRUE]
  ELSE IF h[node].value < h[currentNode].value
    THEN depthLoop(h, h[currentNode].left, node, depth + 1)
    ELSE depthLoop(h, h[currentNode].right, node, depth + 1)

depth(h, r, node) ==
  IF node = NULL THEN [ret |-> -1, threw |-> FALSE]
  ELSE depthLoop(h, r, node, 0)

\* ---- height / isBalanced --------------------------------------------------
Max(a, b) == IF a >= b THEN a ELSE b

Abs(a) == IF a < 0 THEN -a ELSE a

\* height that counts an absent node as 0 instead of -1
RECURSIVE heightZeroForNull(_, _)
heightZeroForNull(h, node) ==
  IF node = NULL THEN 0
  ELSE 1 + Max(heightZeroForNull(h, h[node].left), heightZeroForNull(h, h[node].right))

RECURSIVE height(_, _)
height(h, node) ==
  IF node = NULL THEN -1
  ELSE 1 + Max(height(h, h[node].left), height(h, h[node].right))

RECURSIVE isBalanced(_, _)
isBalanced(h, r) ==
  IF r = NULL THEN TRUE
  ELSE LET leftHeight == height(h, h[r].left)
           rightHeight == height(h, h[r].right)
       IN IF Abs(leftHeight - rightHeight) > 1 THEN FALSE
          ELSE isBalanced(h, h[r].left) /\ isBalanced(h, h[r].right)

\* ---- traversals -----------------------------------------------------------
\* each returns the sequence of nodes the callback is invoked with

\* the levelOrder loop that never enqueues a right child
RECURSIVE levelOrderLoopSkipsRight(_, _, _)
levelOrderLoopSkipsRight(h, queue, out) ==
  IF isEmpty(queue) THEN out
  ELSE LET node == queuePeek(queue)
           q1 == dequeue(queue)
           q2 == IF h[node].left # NULL THEN enqueue(q1, h[node].left) ELSE q1
       IN levelOrderLoopSkipsRight(h, q2, Append(out, node))

RECURSIVE levelOrderLoop(_, _, _)
levelOrderLoop(h, queue, out) ==
  IF isEmpty(queue) THEN out
  ELSE LET node == queuePeek(queue)
           q1 == dequeue(queue)
           q2 == IF h[node].left # NULL THEN enqueue(q1, h[node].left) ELSE q1
           q3 == IF h[node].right # NULL THEN enqueue(q2, h[node].right) ELSE q2
       IN levelOrderLoop(h, q3, Append(out, node))

levelOrder(h, r) ==
  IF r = NULL THEN <<>> ELSE levelOrderLoop(h, enqueue(<<>>, r), <<>>)

\* the preOrder loop that pushes the left child before the right one
RECURSIVE preOrderLoopLeftFirst(_, _, _)
preOrderLoopLeftFirst(h, stack, out) ==
  IF isEmpty(stack) THEN out
  ELSE LET node == peek(stack)
           s1 == pop(stack)
           s2 == IF h[node].left # NULL THEN push(s1, h[node].left) ELSE s1
           s3 == IF h[node].right # NULL THEN push(s2, h[node].right) ELSE s2
       IN preOrderLoopLeftFirst(h, s3, Append(out, node))

RECURSIVE preOrderLoop(_, _, _)
preOrderLoop(h, stack, out) ==
  IF isEmpty(stack) THEN out
  ELSE LET node == peek(stack)
           s1 == pop(stack)
           s2 == IF h[node].right # NULL THEN push(s1, h[node].right) ELSE s1
           s3 == IF h[node].left # NULL THEN push(s2, h[node].left) ELSE s2
       IN preOrderLoop(h, s3, Append(out, node))

preOrder(h, r) ==
  IF r = NULL THEN <<>> ELSE preOrderLoop(h, push(<<>>, r), <<>>)

\* the inner loop  while (currentNode) { stack.push(currentNode); currentNode = currentNode.left }
RECURSIVE pushLeftSpine(_, _, _)
pushLeftSpine(h, currentNode, stack) ==
  IF currentNode = NULL THEN stack
  ELSE pushLeftSpine(h, h[currentNode].left, push(stack, currentNode))

RECURSIVE inOrderLoop(_, _, _, _)
inOrderLoop(h, currentNode, stack, out) ==
  IF currentNode = NULL /\ isEmpty(stack) THEN out
  ELSE LET s1 == pushLeftSpine(h, currentNode, stack)
           node == peek(s1)
       IN inOrderLoop(h, h[node].right, pop(s1), Append(out, node))

inOrder(h, r) ==
  IF r = NULL THEN <<>> ELSE inOrderLoop(h, r, <<>>, <<>>)

RECURSIVE postOrderLoop(_, _, _, _, _)
postOrderLoop(h, currentNode, lastVisitedNode, stack, out) ==
  IF isEmpty(stack) /\ currentNode = NULL THEN out
  ELSE LET s1 == pushLeftSpine(h, currentNode, stack)
           peekNode == peek(s1)
       IN IF h[peekNode].right # NULL /\ lastVisitedNode # h[peekNode].right
            THEN postOrderLoop(h, h[peekNode].right, lastVisitedNode, s1, out)
            ELSE postOrderLoop(h, NULL, peekNode, pop(s1), Append(out, peekNode))

postOrder(h, r) ==
  IF r = NULL THEN <<>> ELSE postOrderLoop(h, r, NULL, <<>>, <<>>)

\* node.value of each node of a sequence of nodes: (node) => values.push(node.value)
NodeValues(h, nodes) == [i \in 1..Len(nodes) |-> h[nodes[i]].value]

\* ---- inputs ---------------------------------------------------------------
\* the strictly ascending, duplicate-free arrays over Values
RECURSIVE SortedSeq(_)
SortedSeq(S) ==
  IF S = {} THEN <<>>
  ELSE LET m == CHOOSE x \in S : \A y \in S : x <= y
       IN <<m>> \o SortedSeq(S \ {m})

\* ---- the state machine ----------------------------------------------------
\* new BinarySearchTree(values)
Init ==
  \E S \in SUBSET Values :
    LET b == buildTree(<<>>, SortedSeq(S))
    IN /\ heap = Collect(b.h, b.ret, NULL)
       /\ held = NULL
       /\ root = b.ret
       /\ op = "build"
       /\ arg = 0
       /\ threw = FALSE
       /\ ret = NULL
       /\ values = SortedSeq(S)
       /\ visited = <<>>
       /\ preHeap = <<>>
       /\ preRoot = NULL

\* tree.insert(v): the result is not assigned to tree.root
InsertCall(v) ==
  LET h0 == Renumber(heap, root, held)
      r0 == RenumberedRoot(root)
      n0 == RenumberedRef(heap, root, held, held)
      s == insert(h0, v, r0)
  IN /\ heap' = Collect(s.h, r0, n0)
     /\ held' = n0
     /\ root' = r0
     /\ op' = "insert"
     /\ arg' = v
     /\ threw' = s.threw
     /\ ret' = s.ret
     /\ visited' = <<>>
     /\ preHeap' = h0
     /\ preRoot' = r0
     /\ values' = <<>>

\* tree.remove(v)
RemoveCall(v) ==
  LET h0 == Renumber(heap, root, held)
      r0 == RenumberedRoot(root)
      n0 == RenumberedRef(heap, root, held, held)
      s == remove(h0, v, r0)
  IN /\ heap' = Collect(s.h, r0, n0)
     /\ held' = n0
     /\ root' = r0
     /\ op' = "remove"
     /\ arg' = v
     /\ threw' = FALSE
     /\ ret' = s.ret
     /\ visited' = <<>>
     /\ preHeap' = h0
     /\ preRoot' = r0
     /\ values' = <<>>

\* tree.rebalance()
RebalanceCall ==
  LET h0 == Renumber(heap, root, held)
      r0 == RenumberedRoot(root)
      n0 == RenumberedRef(heap, root, held, held)
      vals == NodeValues(h0, inOrder(h0, r0))
      b == buildTree(h0, vals)
  IN /\ heap' = Collect(b.h, b.ret, n0)
     /\ held' = n0
     /\ root' = b.ret
     /\ op' = "rebalance"
     /\ arg' = 0
     /\ threw' = FALSE
     /\ ret' = NULL
     /\ values' = vals
     /\ visited' = <<>>
     /\ preHeap' = h0
     /\ preRoot' = r0

\* a traversal call: isFunction is  typeof callback === "function"
Traverse(name, h0, r0, n0, nodes, isFunction) ==
  /\ heap' = h0
  /\ held' = n0
  /\ root' = r0
  /\ op' = name
  /\ arg' = 0
  /\ threw' = ~isFunction
  /\ ret' = NULL
  /\ visited' = IF isFunction THEN nodes ELSE <<>>
  /\ preHeap' = h0
  /\ preRoot' = r0
  /\ values' = <<>>

LevelOrderCall(isFunction) ==
  LET h0 == Renumber(heap, root, held)
      r0 == RenumberedRoot(root)
      n0 == RenumberedRef(heap, root, held, held)
  IN Traverse("levelOrder", h0, r0, n0, levelOrder(h0, r0), isFunction)

PreOrderCall(isFunction) ==
  LET h0 == Renumber(heap, root, held)
      r0 == RenumberedRoot(root)
      n0 == RenumberedRef(heap, root, held, held)
  IN Traverse("preOrder", h0, r0, n0, preOrder(h0, r0), isFunction)

InOrderCall(isFunction) ==
  LET h0 == Renumber(heap, root, held)
      r0 == RenumberedRoot(root)
      n0 == RenumberedRef(heap, root, held, held)
  IN Traverse("inOrder", h0, r0, n0, inOrder(h0, r0), isFunction)

PostOrderCall(isFunction) ==
  LET h0 == Renumber(heap, root, held)
      r0 == RenumberedRoot(root)
      n0 == RenumberedRef(heap, root, held, held)
  IN Traverse("postOrder", h0, r0, n0, postOrder(h0, r0), isFunction)

\* held = tree.find(v): the caller keeps the node
FindCall(v) ==
  LET h0 == Renumber(heap, root, held)
      r0 == RenumberedRoot(root)
      found == find(h0, v, r0)
  IN /\ heap' = Collect(h0, r0, found)
     /\ held' = found
     /\ root' = r0
     /\ op' = "find"
     /\ arg' = v
     /\ threw' = FALSE
     /\ ret' = found
     /\ values' = <<>>
     /\ visited' = <<>>
     /\ preHeap' = h0
     /\ preRoot' = r0

\* tree.depth(held)
DepthCall ==
  LET h0 == Renumber(heap, root, held)
      r0 == RenumberedRoot(root)
      n0 == RenumberedRef(heap, root, held, held)
      d == depth(h0, r0, n0)
  IN /\ heap' = h0
     /\ held' = n0
     /\ root' = r0
     /\ op' = "depth"
     /\ arg' = 0
     /\ threw' = d.threw
     /\ ret' = d.ret
     /\ values' = <<>>
     /\ visited' = <<>>
     /\ preHeap' = h0
     /\ preRoot' = r0

\* tree.depth(other.root) for other = new BinarySearchTree([v]): a node of another tree
DepthOfForeignCall(v) ==
  LET h0 == Renumber(heap, root, held)
      r0 == RenumberedRoot(root)
      n0 == RenumberedRef(heap, root, held, held)
      other == buildTree(h0, <<v>>)
      d == depth(other.h, r0, other.ret)
  IN /\ heap' = Collect(other.h, r0, n0)
     /\ held' = n0
     /\ root' = r0
     /\ op' = "depthOfForeign"
     /\ arg' = v
     /\ threw' = d.threw
     /\ ret' = d.ret
     /\ values' = <<>>
     /\ visited' = <<>>
     /\ preHeap' = h0
     /\ preRoot' = r0

Next ==
  \/ \E v \in Values : InsertCall(v)
  \/ \E v \in Values : RemoveCall(v)
  \/ RebalanceCall
  \/ \E f \in BOOLEAN : LevelOrderCall(f)
  \/ \E f \in BOOLEAN : PreOrderCall(f)
  \/ \E f \in BOOLEAN : InOrderCall(f)
  \/ \E f \in BOOLEAN : PostOrderCall(f)

Spec == Init /\ [][Next]_vars

\* ---- calls with a node the caller kept ---------------------------------------
HeldNext ==
  \/ \E v \in Values : RemoveCall(v)
  \/ \E v \in Values : FindCall(v)
  \/ DepthCall
  \/ \E v \in Values : DepthOfForeignCall(v)

HeldSpec == Init /\ [][HeldNext]_vars

\* ---- the tree of the seven values 1..7 --------------------------------------
\* new BinarySearchTree([1,2,3,4,5,6,7]), then any inserts and removes of those values
ScenarioInput == <<1, 2, 3, 4, 5, 6, 7>>

ScenarioInit ==
  LET b == buildTree(<<>>, ScenarioInput)
  IN /\ heap = Collect(b.h, b.ret, NULL)
     /\ held = NULL
     /\ root = b.ret
     /\ op = "build"
     /\ arg = 0
     /\ threw = FALSE
     /\ ret = NULL
     /\ values = ScenarioInput
     /\ visited = <<>>
     /\ preHeap = <<>>
     /\ preRoot = NULL

ScenarioNext ==
  \/ \E v \in {ScenarioInput[i] : i \in 1..Len(ScenarioInput)} : InsertCall(v)
  \/ \E v \in {ScenarioInput[i] : i \in 1..Len(ScenarioInput)} : RemoveCall(v)

ScenarioSpec == ScenarioInit /\ [][ScenarioNext]_vars

\* ---- auxiliary definitions for the properties -----------------------------
TreeValues(h, r) == {h[n].value : n \in Reachable(h, r)}

Range(seq) == {seq[i] : i \in 1..Len(seq)}

NoRepeats(seq) == \A i, j \in 1..Len(seq) : seq[i] = seq[j] => i = j

StrictlyAscending(seq) == \A i \in 1..(Len(seq) - 1) : seq[i] < seq[i + 1]

\* left subtree, node, right subtree
RECURSIVE InOrderList(_, _)
InOrderList(h, r) ==
  IF r = NULL THEN <<>>
  ELSE InOrderList(h, h[r].left) \o <<r>> \o InOrderList(h, h[r].right)

\* left subtree, right subtree, node
RECURSIVE PostOrderList(_, _)
PostOrderList(h, r) ==
  IF r = NULL THEN <<>>
  ELSE PostOrderList(h, h[r].left) \o PostOrderList(h, h[r].right) \o <<r>>

\* the nodes at distance d below r, left to right
RECURSIVE Level(_, _, _)
Level(h, r, d) ==
  IF r = NULL THEN <<>>
  ELSE IF d = 0 THEN <<r>>
  ELSE Level(h, h[r].left, d - 1) \o Level(h, h[r].right, d - 1)

RECURSIVE LevelsFrom(_, _, _)
LevelsFrom(h, r, d) ==
  IF Level(h, r, d) = <<>> THEN <<>>
  ELSE Level(h, r, d) \o LevelsFrom(h, r, d + 1)

LevelOrderList(h, r) == LevelsFrom(h, r, 0)

\* every left subtree below r holds smaller values, every right subtree larger ones
Ordered(h, r) ==
  \A n \in Reachable(h, r) :
    /\ \A m \in Reachable(h, h[n].left) : h[m].value < h[n].value
    /\ \A m \in Reachable(h, h[n].right) : h[m].value > h[n].value

RECURSIVE Pow2(_)
Pow2(k) == IF k = 0 THEN 1 ELSE 2 * Pow2(k - 1)

FloorLog2(n) == CHOOSE k \in 0..n : Pow2(k) <= n /\ n < Pow2(k + 1)

Traversals == {"levelOrder", "preOrder", "inOrder", "postOrder"}

TypeOK ==
  /\ root \in DOMAIN heap \cup {NULL}
  /\ DOMAIN heap = Reachable(heap, root) \cup Reachable(heap, held)
  /\ \A n \in DOMAIN heap : heap[n].value \in Values

\* ---- C1 -------------------------------------------------------------------
\* C1: after insert(v) of a value v that was not in the tree (the result not
\* assigned to tree.root), find(v) returns a node holding v.
C1_InsertThenFind ==
  (op = "insert" /\ arg \notin TreeValues(preHeap, preRoot)) =>
    /\ find(heap, arg, root) # NULL
    /\ heap[find(heap, arg, root)].value = arg

\* ---- C2 -------------------------------------------------------------------
\* C2: after remove(v) of a value v that was in the tree (plain method call),
\* find(v) returns null.
C2_RemoveThenFindAbsent ==
  (op = "remove" /\ arg \in TreeValues(preHeap, preRoot)) =>
    find(heap, arg, root) = NULL

\* ---- C3 -------------------------------------------------------------------
\* C3: between calls, every node's left subtree holds only smaller values and
\* its right subtree only larger ones, and no value occurs twice.
C3_OrderingInvariant ==
  /\ Ordered(heap, root)
  /\ Cardinality(TreeValues(heap, root)) = Cardinality(Reachable(heap, root))

\* a removal of a node with two children has happened and three nodes remain
C3_Witness ==
  /\ op = "remove"
  /\ arg \in TreeValues(preHeap, preRoot)
  /\ LET n == find(preHeap, arg, preRoot)
     IN preHeap[n].left # NULL /\ preHeap[n].right # NULL
  /\ Cardinality(Reachable(heap, root)) >= 3

\* ---- C4 -------------------------------------------------------------------
\* C4: insert(v) of a value already in the tree throws and leaves the same
\* nodes with the same values and links, and the same root.
C4_DuplicateInsertThrowsUnchanged ==
  (op = "insert" /\ arg \in TreeValues(preHeap, preRoot)) =>
    /\ threw
    /\ heap = preHeap
    /\ root = preRoot

\* a duplicate insert of a value held two levels below the root
C4_Witness ==
  /\ op = "insert"
  /\ threw
  /\ arg \in TreeValues(preHeap, preRoot)
  /\ arg # preHeap[preRoot].value
  /\ \A c \in {preHeap[preRoot].left, preHeap[preRoot].right} \ {NULL} :
       arg # preHeap[c].value

\* ---- C5 -------------------------------------------------------------------
\* C5: remove(v) of a value not in the tree raises no error and leaves the
\* same root and the same nodes with the same values and links.
C5_RemoveAbsentUnchanged ==
  (op = "remove" /\ arg \notin TreeValues(preHeap, preRoot)) =>
    /\ ~threw
    /\ heap = preHeap
    /\ root = preRoot

\* an absent value removed from a tree of at least three nodes
C5_Witness ==
  /\ op = "remove"
  /\ arg \notin TreeValues(preHeap, preRoot)
  /\ Cardinality(DOMAIN preHeap) >= 3

\* ---- C6 -------------------------------------------------------------------
\* C6: the tree the constructor builds from a strictly ascending array has an
\* in-order traversal whose values are the array, in the same order.
C6_BuildInOrderIsInput ==
  op = "build" => NodeValues(heap, inOrder(heap, root)) = values

\* built from an array of at least four values
C6_Witness == op = "build" /\ Len(values) >= 4

\* ---- C7 -------------------------------------------------------------------
\* C7: after rebalance(), isBalanced() is true and the in-order sequence of
\* values is what it was before the call.
C7_RebalanceBalancedSameInOrder ==
  op = "rebalance" =>
    /\ isBalanced(heap, root)
    /\ NodeValues(heap, InOrderList(heap, root))
         = NodeValues(preHeap, InOrderList(preHeap, preRoot))

\* an unbalanced tree has been rebalanced
C7_Witness ==
  /\ op = "rebalance"
  /\ ~isBalanced(preHeap, preRoot)
  /\ Cardinality(DOMAIN heap) >= 3

\* ---- C8 -------------------------------------------------------------------
\* C8: every traversal hands each node reachable from the root to the callback
\* exactly once, and inOrder hands them over in strictly ascending value order.
C8_TraversalsVisitEachNodeOnce ==
  (op \in Traversals /\ ~threw) =>
    /\ NoRepeats(visited)
    /\ Range(visited) = Reachable(heap, root)
    /\ op = "inOrder" => StrictlyAscending(NodeValues(heap, visited))

\* a post-order traversal of a tree with a two-children node and four nodes
C8_Witness ==
  /\ op = "postOrder"
  /\ ~threw
  /\ Len(visited) >= 4
  /\ \E n \in DOMAIN heap : heap[n].left # NULL /\ heap[n].right # NULL

\* ---- C9 -------------------------------------------------------------------
\* C9: the tree built from a strictly ascending array of n >= 1 values has
\* height floor(log2 n).
C9_BuildHeight ==
  (op = "build" /\ Len(values) >= 1) =>
    height(heap, root) = FloorLog2(Len(values))

\* built from four values: height 2
C9_Witness == op = "build" /\ Len(values) = 4 /\ height(heap, root) = 2

\* ---- C10 ------------------------------------------------------------------
\* C10: preOrder emits node, left subtree, right subtree; postOrder emits left
\* subtree, right subtree, node; levelOrder emits by depth, left to right.
C10_TraversalOrders ==
  ~threw =>
    /\ op = "preOrder" => visited = PreOrderList(heap, root)
    /\ op = "postOrder" => visited = PostOrderList(heap, root)
    /\ op = "levelOrder" => visited = LevelOrderList(heap, root)

\* a level-order traversal of a tree of height two with a two-children node
C10_Witness ==
  /\ op = "levelOrder"
  /\ ~threw
  /\ height(heap, root) >= 2
  /\ \E n \in DOMAIN heap : heap[n].left # NULL /\ heap[n].right # NULL

\* ---- C11 ------------------------------------------------------------------
SetMin(S) == CHOOSE x \in S : \A y \in S : x <= y

\* the node remove(arg) found in the tree before the call (NULL when absent)
RemovedAt == find(preHeap, arg, preRoot)

TwoChildrenRemoved ==
  /\ op = "remove"
  /\ RemovedAt # NULL
  /\ preHeap[RemovedAt].left # NULL
  /\ preHeap[RemovedAt].right # NULL

\* C11: remove(v) of a value held by a node N with two children keeps N where
\* it was (same object, same link from its parent or from tree.root), gives N
\* the smallest value of its former right subtree, drops exactly the node that
\* held that value, and leaves every other node's value alone. On the tree
\* built from [1,2,3,4,5,6,7], remove(4) leaves the root node holding 5,
\* find(4) null and find(5) the root.
C11_TwoChildrenRemove ==
  /\ TwoChildrenRemoved =>
       LET N == RemovedAt
           rightBefore == Reachable(preHeap, preHeap[N].right)
           smallest == SetMin({preHeap[m].value : m \in rightBefore})
           holder == CHOOSE m \in rightBefore : preHeap[m].value = smallest
       IN /\ root = preRoot
          /\ DOMAIN heap = DOMAIN preHeap \ {holder}
          /\ N \in DOMAIN heap
          /\ \A p \in DOMAIN heap :
               /\ preHeap[p].left = N <=> heap[p].left = N
               /\ preHeap[p].right = N <=> heap[p].right = N
          /\ heap[N].value = smallest
          /\ \A m \in DOMAIN heap \ {N} : heap[m].value = preHeap[m].value
  /\ (op = "remove" /\ arg = 4 /\ preHeap = buildTree(<<>>, ScenarioInput).h) =>
       /\ root = preRoot
       /\ heap[root].value = 5
       /\ find(heap, 4, root) = NULL
       /\ find(heap, 5, root) = root

\* remove(4) has been called on the tree built from [1,2,3,4,5,6,7]
C11_Witness ==
  /\ TwoChildrenRemoved
  /\ arg = 4
  /\ preHeap = buildTree(<<>>, ScenarioInput).h
  /\ RemovedAt = preRoot

\* ---- C12 ------------------------------------------------------------------
\* the last call was depth(node) with a node object that is not in the tree:
\* one the caller kept and a remove or rebalance has detached, or another tree's
DepthOfNodeOutsideTree ==
  \/ op = "depth" /\ held # NULL /\ held \notin Reachable(heap, root)
  \/ op = "depthOfForeign"

\* C12 as stated: depth(node) of a node that is not part of the tree raises no
\* error and returns an integer (a wrong answer).
C12_OutsideNodeDepthReturnsInteger ==
  DepthOfNodeOutsideTree => (~threw /\ ret \in Nat)

\* C12 as amended: depth(node) of a non-null node that is not part of the tree
\* never returns: the walk from the root runs off the tree and reading .value
\* of null raises a TypeError.
C12_OutsideNodeDepthThrows ==
  DepthOfNodeOutsideTree => threw

\* depth was called with a kept node that a remove detached, its value still in
\* the tree (the successor's old node after a two-children remove)
C12_Witness ==
  /\ op = "depth"
  /\ held # NULL
  /\ held \notin Reachable(heap, root)
  /\ heap[held].value \in TreeValues(heap, root)
  /\ threw

====
